---------------------------- MODULE Spec2Model ----------------------------
(***************************************************************************)
(* chicago_crimes_dashboard.py as a state machine.                         *)
(*                                                                         *)
(* One Streamlit session: the script is run once when the page opens and   *)
(* again after every sidebar interaction.  Each run calls load_data()      *)
(* (memoised by st.cache_data), resolves the period from the sidebar       *)
(* widgets, filters the dataset and computes the KPIs, the time series and *)
(* the map subset.  The CSV file on disk may change between runs.          *)
(*                                                                         *)
(* Data abstraction.  A calendar date is its proleptic Gregorian ordinal   *)
(* (datetime.date.toordinal), a timestamp is a pair (ordinal, hour), a     *)
(* month token "YYYY-MM" is the pair <<year, month>>, a raw timestamp cell *)
(* of the CSV is the record of its year/month/day/hour fields, and a       *)
(* missing cell (pandas NaN) is the string NaN.  Float rates are kept as   *)
(* exact fractions [num, den].                                             *)
(***************************************************************************)
EXTENDS Integers, Sequences, FiniteSets, TLC

(***************************************************************************)
(* Bounds of the model.                                                    *)
(***************************************************************************)
\* Largest number of data rows in the CSV file.
MaxRows == 3
\* Ordinal of the first calendar day rows may be dated (738943 = 2024-02-27).
FirstDay == 738943
\* Number of consecutive calendar days rows may be dated.
NumDays == 8
\* The map sample cap of line 232/233 (5000 in the source), scaled to the
\* model's row counts so that len(map_df) > cap happens.
MAP_SAMPLE_CAP == 2

NaN == "NaN"

(***************************************************************************)
(* Calendar arithmetic (datetime.date / pandas Timestamp).                 *)
(***************************************************************************)
is_leap(y) == y % 4 = 0 /\ (y % 100 # 0 \/ y % 400 = 0)

days_in_month(y, m) ==
    IF m = 2 THEN (IF is_leap(y) THEN 29 ELSE 28)
    ELSE IF m \in {4, 6, 9, 11} THEN 30 ELSE 31

days_before_year(y) ==
    (y - 1) * 365 + ((y - 1) \div 4) - ((y - 1) \div 100) + ((y - 1) \div 400)

RECURSIVE days_before_month(_, _)
days_before_month(y, m) ==
    IF m = 1 THEN 0
    ELSE days_before_month(y, m - 1) + days_in_month(y, m - 1)

\* date(y, m, d).toordinal()
ymd2ord(y, m, d) == days_before_year(y) + days_before_month(y, m) + d

\* date.fromordinal(n) as <<year, month, day>>
ord2ymd(n) ==
    LET y == CHOOSE yy \in (n \div 366)..((n \div 365) + 1) :
                 days_before_year(yy) < n /\ n <= days_before_year(yy + 1)
        r == n - days_before_year(y)
        m == CHOOSE mm \in 1..12 :
                 days_before_month(y, mm) < r
                 /\ r <= days_before_month(y, mm) + days_in_month(y, mm)
    IN  <<y, m, r - days_before_month(y, m)>>

\* date.weekday(): Monday is 0.
weekday(d) == (d + 6) % 7

day_order == <<"Monday", "Tuesday", "Wednesday", "Thursday", "Friday",
               "Saturday", "Sunday">>

\* Timestamp.day_name()
day_name(d) == day_order[weekday(d) + 1]

\* Timestamp.to_period('M').astype(str), "YYYY-MM" as <<year, month>>
month_token(d) == <<ord2ymd(d)[1], ord2ymd(d)[2]>>

(***************************************************************************)
(* load_data(): parse the timestamp column, drop the rows that failed to   *)
(* parse, derive date / hour / day_of_week / month.                        *)
(***************************************************************************)
\* pd.to_datetime(errors='coerce') on one cell: NaT when the cell is not a
\* calendar timestamp.
NaT == [ord |-> 0, hour |-> 0]

to_datetime(s) ==
    IF /\ s.y >= 1
       /\ s.m \in 1..12
       /\ s.d >= 1
       /\ s.d <= days_in_month(s.y, s.m)
       /\ s.h \in 0..23
    THEN [ord |-> ymd2ord(s.y, s.m, s.d), hour |-> s.h]
    ELSE NaT

\* Row i of the file after line 29 and lines 34-37 (idx is the pandas index
\* label, the row's position in the file).
parsed_row(csv, i) ==
    LET ts == to_datetime(csv[i].stamp)
    IN  [idx          |-> i,
         ts           |-> ts,
         date         |-> ts.ord,
         hour         |-> ts.hour,
         day_of_week  |-> IF ts = NaT THEN NaN ELSE day_name(ts.ord),
         month        |-> IF ts = NaT THEN <<0, 0>> ELSE month_token(ts.ord),
         type         |-> csv[i].type,
         arrest       |-> csv[i].arrest,
         domestic     |-> csv[i].domestic,
         loc          |-> csv[i].loc,
         lat          |-> csv[i].lat,
         lon          |-> csv[i].lon]

\* df.dropna(subset=[date_col]); the faulty variant keeps every row.
dropna_date_keepall(rows) == rows
dropna_date(rows) == SelectSeq(rows, LAMBDA r : r.ts # NaT)

load_data(csv) == dropna_date([i \in 1..Len(csv) |-> parsed_row(csv, i)])


(***************************************************************************)
(* Period resolution and filtering (lines 58-103).                         *)
(***************************************************************************)
RECURSIVE seq_min(_)
seq_min(s) ==
    IF Len(s) = 1 THEN s[1]
    ELSE LET m == seq_min(Tail(s)) IN IF s[1] <= m THEN s[1] ELSE m

RECURSIVE seq_max(_)
seq_max(s) ==
    IF Len(s) = 1 THEN s[1]
    ELSE LET m == seq_max(Tail(s)) IN IF s[1] >= m THEN s[1] ELSE m

column_date(df) == [i \in 1..Len(df) |-> df[i].date]

\* df['date'].min() / df['date'].max(), of a non-empty frame
min_date(df) == seq_min(column_date(df))
max_date(df) == seq_max(column_date(df))

\* sorted(df['month'].unique(), reverse=True), as the set of its options
months(df) == {df[i].month : i \in 1..Len(df)}

\* df[df['date'] == selected_date]
filter_daily(df, selected_date) ==
    SelectSeq(df, LAMBDA r : r.date = selected_date)

\* selected_date - timedelta(days=selected_date.weekday()); the faulty
\* variant takes the selected date for the start of the week.
week_start_of_selected(selected_date) == selected_date
week_start_of(selected_date) == selected_date - weekday(selected_date)

\* week_start + timedelta(days=6)
week_end_of(week_start) == week_start + 6

\* df[(df['date'] >= week_start) & (df['date'] <= week_end)]
filter_weekly(df, week_start, week_end) ==
    SelectSeq(df, LAMBDA r : r.date >= week_start /\ r.date <= week_end)

\* df[df['month'] == selected_month]
filter_monthly(df, selected_month) ==
    SelectSeq(df, LAMBDA r : r.month = selected_month)

\* The grouping key each branch resolves (lines 71, 90, 103).
time_grouping(view_mode) ==
    IF view_mode = "Daily" THEN "hour"
    ELSE IF view_mode = "Weekly" THEN "day_of_week"
    ELSE "date"

(***************************************************************************)
(* KPI metrics (lines 111-121, 153).                                       *)
(***************************************************************************)
\* Python's a / b as the exact fraction; den = 0 is ZeroDivisionError.
py_truediv(a, b) == [num |-> a, den |-> b]
times(q, k) == [num |-> q.num * k, den |-> q.den]
int_zero == [num |-> 0, den |-> 1]
raises_zero_division(q) == q.den = 0

\* len(filtered_df[filtered_df[column] == 'Y'])
count_flag(rows, column) ==
    Len(SelectSeq(rows, LAMBDA r : IF column = "ARREST" THEN r.arrest = "Y"
                                   ELSE r.domestic = "Y"))

\* (arrests_made / total_crimes * 100) if total_crimes > 0 else 0; one
\* faulty variant drops the guard, the other the factor 100.
arrest_rate_unguarded(arrests_made, total_crimes) ==
    times(py_truediv(arrests_made, total_crimes), 100)
arrest_rate_proportion(arrests_made, total_crimes) ==
    IF total_crimes > 0 THEN py_truediv(arrests_made, total_crimes)
    ELSE int_zero
arrest_rate(arrests_made, total_crimes) ==
    IF total_crimes > 0
    THEN times(py_truediv(arrests_made, total_crimes), 100)
    ELSE int_zero

\* (domestic_crimes / total_crimes * 100) if total_crimes > 0 else 0
domestic_rate(domestic_crimes, total_crimes) ==
    IF total_crimes > 0
    THEN times(py_truediv(domestic_crimes, total_crimes), 100)
    ELSE int_zero

\* The distinct values of a column in order of first appearance.
RECURSIVE first_seen(_)
first_seen(values) ==
    IF values = <<>> THEN <<>>
    ELSE LET init == first_seen(SubSeq(values, 1, Len(values) - 1))
             last == values[Len(values)]
         IN  IF \E i \in 1..Len(init) : init[i] = last THEN init
             ELSE Append(init, last)

count_of(values, v) == Cardinality({i \in 1..Len(values) : values[i] = v})

\* Series.sort_values(ascending=False) of the counts.  Entries are
\* [value, count, pos] with pos the first-seen position.  pandas sorts with
\* numpy's default quicksort, which leaves the order of equal counts to the
\* build; tie_order names the build's choice.
RECURSIVE sort_counts_desc(_, _)
sort_counts_desc(entries, tie_order) ==
    IF entries = {} THEN <<>>
    ELSE LET best == CHOOSE e \in entries : \A o \in entries :
                        \/ e.count > o.count
                        \/ /\ e.count = o.count
                           /\ IF tie_order = "first_seen" THEN e.pos <= o.pos
                              ELSE e.pos >= o.pos
         IN  <<best>> \o sort_counts_desc(entries \ {best}, tie_order)

\* Series.value_counts(): [value, count] by descending count, NaN dropped.
value_counts(values, tie_order) ==
    LET seen == SelectSeq(first_seen(values), LAMBDA v : v # NaN)
        entries == {[value |-> seen[i], count |-> count_of(values, seen[i]),
                     pos |-> i] : i \in 1..Len(seen)}
    IN  sort_counts_desc(entries, tie_order)

column_type(rows) == [i \in 1..Len(rows) |-> rows[i].type]

\* value_counts().index[0] if total_crimes > 0 else "N/A"; the faulty
\* variant takes the last entry.
most_common_crime_last(rows, tie_order) ==
    IF Len(rows) > 0
    THEN LET vc == value_counts(column_type(rows), tie_order)
         IN  vc[Len(vc)].value
    ELSE "N/A"
most_common_crime(rows, tie_order) ==
    IF Len(rows) > 0
    THEN value_counts(column_type(rows), tie_order)[1].value
    ELSE "N/A"

\* filtered_df['LOCATION DESCRIPTION'].nunique(): NaN is not counted.
unique_locations(rows) ==
    Cardinality({rows[i].loc : i \in 1..Len(rows)} \ {NaN})

(***************************************************************************)
(* Time series (lines 167-201).  A bucket is [key, count].                 *)
(***************************************************************************)
\* The value of the grouping column in a row.
column_value(r, column) ==
    IF column = "hour" THEN r.hour
    ELSE IF column = "day_of_week" THEN r.day_of_week
    ELSE r.date

\* Position of a key in groupby's sorted output: numbers by value, weekday
\* names by alphabetical order.
alphabetical == <<"Friday", "Monday", "Saturday", "Sunday", "Thursday",
                  "Tuesday", "Wednesday">>

index_in(s, v) == CHOOSE i \in 1..Len(s) : s[i] = v

groupby_rank(column, key) ==
    IF column = "day_of_week" THEN index_in(alphabetical, key) ELSE key

RECURSIVE sort_keys(_, _)
sort_keys(keys, column) ==
    IF keys = {} THEN <<>>
    ELSE LET k == CHOOSE x \in keys : \A o \in keys :
                      groupby_rank(column, x) <= groupby_rank(column, o)
         IN  <<k>> \o sort_keys(keys \ {k}, column)

\* filtered_df.groupby(column).size().reset_index(name='count'); the faulty
\* variant counts the distinct hours in a bucket instead of its rows.
groupby_size_nunique(rows, column) ==
    LET keys == sort_keys({column_value(rows[i], column) : i \in 1..Len(rows)},
                          column)
    IN  [j \in 1..Len(keys) |->
            [key   |-> keys[j],
             count |-> Cardinality({rows[i].hour : i \in
                          {n \in 1..Len(rows) :
                              column_value(rows[n], column) = keys[j]}})]]
groupby_size(rows, column) ==
    LET keys == sort_keys({column_value(rows[i], column) : i \in 1..Len(rows)},
                          column)
    IN  [j \in 1..Len(keys) |->
            [key   |-> keys[j],
             count |-> Cardinality({i \in 1..Len(rows) :
                          column_value(rows[i], column) = keys[j]})]]

\* day_data.sort_values('day_of_week') on the Categorical with
\* categories=day_order: buckets by their position in day_order.  The
\* faulty variant leaves groupby's order.
RECURSIVE sort_by_category(_)
sort_by_category(buckets) ==
    IF buckets = {} THEN <<>>
    ELSE LET b == CHOOSE x \in buckets : \A o \in buckets :
                      index_in(day_order, x.key) <= index_in(day_order, o.key)
         IN  <<b>> \o sort_by_category(buckets \ {b})

day_data_unsorted(rows) == groupby_size(rows, "day_of_week")
day_data(rows) ==
    LET grouped == groupby_size(rows, "day_of_week")
    IN  sort_by_category({grouped[i] : i \in 1..Len(grouped)})

\* The data of fig_time; no chart when total_crimes = 0.
time_series(rows, grouping) ==
    IF Len(rows) > 0
    THEN IF grouping = "hour" THEN groupby_size(rows, "hour")
         ELSE IF grouping = "day_of_week" THEN day_data(rows)
         ELSE groupby_size(rows, "date")
    ELSE <<>>

(***************************************************************************)
(* Map subset (lines 226-233).                                             *)
(***************************************************************************)
\* filtered_df.dropna(subset=['LATITUDE', 'LONGITUDE'])
dropna_coords(rows) ==
    SelectSeq(rows, LAMBDA r : r.lat # NaN /\ r.lon # NaN)

\* DataFrame.sample(n, random_state=seed): the first n positions of the
\* permutation a generator seeded with seed draws.  The generator is a
\* small linear congruential one standing for numpy's RandomState: what is
\* kept is that the result is a function of (rows, n, seed) and draws
\* without replacement.
lcg_next(state) == (state * 75 + 74) % 65537

remove_at(s, i) == SubSeq(s, 1, i - 1) \o SubSeq(s, i + 1, Len(s))

RECURSIVE draw(_, _, _)
draw(pool, n, state) ==
    IF n = 0 \/ pool = <<>> THEN <<>>
    ELSE LET i == (state % Len(pool)) + 1
         IN  <<pool[i]>> \o draw(remove_at(pool, i), n - 1, lcg_next(state))

sample(rows, n, random_state) == draw(rows, n, lcg_next(random_state))

\* The rows handed to px.density_mapbox; none when there is no map.  The
\* faulty variant never samples.
map_df_uncapped(rows) ==
    IF Len(rows) > 0 THEN dropna_coords(rows) ELSE <<>>
map_df(rows) ==
    IF Len(rows) > 0
    THEN LET located == dropna_coords(rows)
         IN  IF Len(located) > MAP_SAMPLE_CAP
             THEN sample(located, MAP_SAMPLE_CAP, 42)
             ELSE located
    ELSE <<>>

(***************************************************************************)
(* The session.                                                            *)
(***************************************************************************)
VARIABLES
    csv,            \* chicagocrimes.csv on disk: its data rows
    cache,          \* st.cache_data's entry for load_data()
    loaded_from,    \* the rows of the file when load_data() read it
    tie_order,      \* how this build's sort orders equal counts
    df,             \* the script's df in the last run
    view_mode,      \* the radio's value in the last run
    selected_date,  \* the date_input's value (Daily, Weekly)
    selected_month, \* the selectbox's value (Monthly)
    week_start,     \* line 84
    week_end,       \* line 85
    filtered_df,    \* the rows of the period
    report,         \* what the last run rendered
    outcome,        \* "none" before the first run, then "ok" or "error"
    error,          \* the exception the except clause of line 466 caught
    first_report    \* what the first run rendered

vars == <<csv, cache, loaded_from, tie_order, df, view_mode, selected_date, selected_month,
          week_start, week_end, filtered_df, report, outcome, error,
          first_report>>

\* Python's None in a date / month variable.
NoDate == NaT.ord
NoMonth == <<NoDate, NoDate>>

NoReport ==
    [rendered |-> FALSE, total_crimes |-> 0, arrests_made |-> 0,
     arrest_rate |-> int_zero, domestic_crimes |-> 0,
     domestic_rate |-> int_zero, most_common_crime |-> "",
     unique_locations |-> 0, time_series |-> <<>>, map_df |-> <<>>]

\* Lines 111-233 on the rows of the period.
aggregate(rows, view, tie) ==
    [rendered          |-> TRUE,
     total_crimes      |-> Len(rows),
     arrests_made      |-> count_flag(rows, "ARREST"),
     arrest_rate       |-> arrest_rate(count_flag(rows, "ARREST"), Len(rows)),
     domestic_crimes   |-> count_flag(rows, "DOMESTIC"),
     domestic_rate     |-> domestic_rate(count_flag(rows, "DOMESTIC"),
                                         Len(rows)),
     most_common_crime |-> most_common_crime(rows, tie),
     unique_locations  |-> unique_locations(rows),
     time_series       |-> time_series(rows, time_grouping(view)),
     map_df            |-> map_df(rows)]

\* @st.cache_data: the stored frame on a hit, load_data() on a miss.  The
\* faulty variant reads the file in every run.
cached_load_data_uncached(entry, file) == load_data(file)
cached_load_data(entry, file) ==
    IF entry.hit THEN entry.value ELSE load_data(file)

cache_after(entry, file) ==
    IF entry.hit THEN entry ELSE [hit |-> TRUE, value |-> load_data(file)]

\* One run of the script from line 105 on, the period being resolved.
\* A ZeroDivisionError of lines 113/115 ends the run before anything is
\* rendered; the one of line 460 (len(df) = 0) ends it after the KPIs, the
\* charts and the map.
Render(data, view, date, month, ws, we, rows) ==
    LET rep == aggregate(rows, view, tie_order)
        early == \/ raises_zero_division(rep.arrest_rate)
                 \/ raises_zero_division(rep.domestic_rate)
        late == Len(data) = 0
    IN  /\ df' = data
        /\ cache' = cache_after(cache, csv)
        /\ loaded_from' = IF cache.hit THEN loaded_from ELSE csv
        /\ view_mode' = view
        /\ selected_date' = date
        /\ selected_month' = month
        /\ week_start' = ws
        /\ week_end' = we
        /\ filtered_df' = rows
        /\ report' = IF early THEN NoReport ELSE rep
        /\ outcome' = IF early \/ late THEN "error" ELSE "ok"
        /\ error' = IF early \/ late THEN "ZeroDivisionError" ELSE ""
        /\ UNCHANGED <<csv, tie_order>>

\* df['date'].max() of an empty frame is NaN, which st.date_input rejects
\* (lines 59-66): the run ends in the except clause with nothing rendered.
DateInputRaises(data, view) ==
    /\ df' = data
    /\ cache' = cache_after(cache, csv)
    /\ loaded_from' = IF cache.hit THEN loaded_from ELSE csv
    /\ view_mode' = view
    /\ selected_date' = NoDate
    /\ selected_month' = NoMonth
    /\ week_start' = NoDate
    /\ week_end' = NoDate
    /\ filtered_df' = <<>>
    /\ report' = NoReport
    /\ outcome' = "error"
    /\ error' = "StreamlitAPIException"
    /\ UNCHANGED <<csv, tie_order>>

\* Lines 58-71 with the date the widget returns.
Daily(data, date) ==
    Render(data, "Daily", date, NoMonth, NoDate, NoDate,
           filter_daily(data, date))

\* Lines 73-90 with the date the widget returns.
Weekly(data, date) ==
    LET ws == week_start_of(date)
        we == week_end_of(ws)
    IN  Render(data, "Weekly", date, NoMonth, ws, we,
               filter_weekly(data, ws, we))

\* Lines 92-103 with the option the selectbox returns.
Monthly(data, month) ==
    Render(data, "Monthly", NoDate, month, NoDate, NoDate,
           filter_monthly(data, month))

\* The page is opened: load_data() runs, the radio is at "Daily" (index=0)
\* and the date_input at its default, max_date.
FirstRun ==
    /\ outcome = "none"
    /\ LET data == cached_load_data(cache, csv)
       IN  IF data = <<>> THEN DateInputRaises(data, "Daily")
           ELSE Daily(data, max_date(data))
    /\ first_report' = report'

\* The user picks "Daily" and a date the date_input allows
\* (min_value=min_date, max_value=max_date).
SelectDaily ==
    /\ outcome # "none"
    /\ LET data == cached_load_data(cache, csv)
       IN  IF data = <<>> THEN DateInputRaises(data, "Daily")
           ELSE \E date \in min_date(data)..max_date(data) : Daily(data, date)
    /\ UNCHANGED first_report

\* The user picks "Weekly" and a date the date_input allows.
SelectWeekly ==
    /\ outcome # "none"
    /\ LET data == cached_load_data(cache, csv)
       IN  IF data = <<>> THEN DateInputRaises(data, "Weekly")
           ELSE \E date \in min_date(data)..max_date(data) : Weekly(data, date)
    /\ UNCHANGED first_report

\* The user picks "Monthly" and one of the selectbox's options; with no
\* option the selectbox returns None.
SelectMonthly ==
    /\ outcome # "none"
    /\ LET data == cached_load_data(cache, csv)
       IN  IF months(data) = {} THEN Monthly(data, NoMonth)
           ELSE \E month \in months(data) : Monthly(data, month)
    /\ UNCHANGED first_report

\* The file on disk is rewritten with no data rows left.
FileChanges ==
    /\ outcome # "none"
    /\ csv # <<>>
    /\ csv' = <<>>
    /\ UNCHANGED <<cache, loaded_from, tie_order, df, view_mode, selected_date,
                   selected_month, week_start, week_end, filtered_df, report,
                   outcome, error, first_report>>

Next ==
    \/ FirstRun
    \/ SelectDaily
    \/ SelectWeekly
    \/ SelectMonthly
    \/ FileChanges

(***************************************************************************)
(* Initial states: the file the session starts from.                       *)
(***************************************************************************)
\* The timestamp cell of day d, hour h.
stamp(d, h) ==
    LET ymd == ord2ymd(d)
    IN  [y |-> ymd[1], m |-> ymd[2], d |-> ymd[3], h |-> h]

\* Cells pd.to_datetime cannot parse: an empty cell, a 30th of February, a
\* 13th month.
EmptyStamp == [y |-> NoDate, m |-> NoDate, d |-> NoDate, h |-> NoDate]
BadStamps ==
    {EmptyStamp,
     [y |-> ord2ymd(FirstDay)[1], m |-> 2, d |-> 30, h |-> 12],
     [y |-> ord2ymd(FirstDay)[1], m |-> 13, d |-> 1, h |-> 12]}

RawRows(stamps, types, arrests, domestics, locs, lats, lons) ==
    [stamp : stamps, type : types, arrest : arrests, domestic : domestics,
     loc : locs, lat : lats, lon : lons]

InitWith(rows, tie_orders) ==
    /\ csv \in UNION {[1..n -> rows] : n \in 0..MaxRows}
    /\ cache = [hit |-> FALSE, value |-> <<>>]
    /\ loaded_from = <<>>
    /\ tie_order \in tie_orders
    /\ df = <<>>
    /\ view_mode = ""
    /\ selected_date = NoDate
    /\ selected_month = NoMonth
    /\ week_start = NoDate
    /\ week_end = NoDate
    /\ filtered_df = <<>>
    /\ report = NoReport
    /\ outcome = "none"
    /\ error = ""
    /\ first_report = NoReport

Plain(stamps) ==
    RawRows(stamps, {"THEFT"}, {"N"}, {"N"}, {"STREET"}, {"41.88"},
            {"-87.63"})

\* Files for the loader and the session: good and unparsable timestamps.
RowsLoad ==
    Plain({stamp(FirstDay, 8), stamp(FirstDay + 2, 8),
           stamp(FirstDay + NumDays - 1, 8)} \cup BadStamps)

\* Files for the rates: the flags vary, and the day between the two dated
\* days has no row.
RowsKpi ==
    RawRows({stamp(FirstDay, 8)}, {"THEFT"}, {"Y", "N"}, {"Y", "N"},
            {"STREET"}, {"41.88"}, {"-87.63"})
    \cup Plain({stamp(FirstDay + 2, 8), EmptyStamp})

\* Files for the top crime type and the location count.
RowsTop ==
    RawRows({stamp(FirstDay, 8)}, {"THEFT", "BATTERY", "ASSAULT"}, {"N"},
            {"N"}, {"STREET"}, {"41.88"}, {"-87.63"})
    \cup RawRows({stamp(FirstDay, 8)}, {"THEFT"}, {"N"}, {"N"},
                 {"ALLEY", NaN}, {"41.88"}, {"-87.63"})
    \cup Plain({EmptyStamp})

\* Files for the week and the time series: days of two weeks and two
\* months, two hours.
RowsWeek ==
    Plain({stamp(FirstDay, 8), stamp(FirstDay, 20), stamp(FirstDay + 4, 8),
           stamp(FirstDay + NumDays - 1, 8), EmptyStamp})

\* Files for the map: either coordinate may be missing.
RowsMap ==
    RawRows({stamp(FirstDay, 8), EmptyStamp}, {"THEFT"}, {"N"}, {"N"},
            {"STREET"}, {"41.88", NaN}, {"-87.63", NaN})

AnyBuild == {"first_seen", "last_seen"}
StableBuild == {"first_seen"}

Spec == InitWith(RowsLoad, StableBuild) /\ [][Next]_vars
SpecKpi == InitWith(RowsKpi, StableBuild) /\ [][Next]_vars
SpecTop == InitWith(RowsTop, AnyBuild) /\ [][Next]_vars
SpecWeek == InitWith(RowsWeek, StableBuild) /\ [][Next]_vars
SpecMap == InitWith(RowsMap, StableBuild) /\ [][Next]_vars

(***************************************************************************)
(* Properties.                                                             *)
(***************************************************************************)
\* A run resolved a period (the widget of its view returned a value).
PeriodResolved ==
    /\ outcome # "none"
    /\ view_mode = "Monthly" \/ selected_date # NoDate

Indices(rows) == 1..Len(rows)

\* The rows of a frame with a flag set, counted from the raw cells.
Flagged(rows, flag) ==
    Cardinality({i \in Indices(rows) :
                    IF flag = "arrest" THEN rows[i].arrest = "Y"
                    ELSE rows[i].domestic = "Y"})

RateIsZero(q) == q.den # 0 /\ q.num = 0

\* C1: whenever the period resolved by a run has no rows, the run renders
\* a report (the rates raise no ZeroDivisionError) whose arrest and
\* domestic rates are 0, whose top crime type is "N/A" and whose location
\* type count is 0; with a non-empty dataset the run ends without error.
C1_EmptyPeriodReport ==
    (PeriodResolved /\ filtered_df = <<>>) =>
        /\ report.rendered
        /\ report.total_crimes = 0
        /\ RateIsZero(report.arrest_rate)
        /\ RateIsZero(report.domestic_rate)
        /\ report.most_common_crime = "N/A"
        /\ report.unique_locations = 0
        /\ df # <<>> => (outcome = "ok" /\ error = "")

\* C1 witness: a Daily run on a day of a non-empty dataset that has no row.
C1_Witness ==
    /\ outcome = "ok"
    /\ view_mode = "Daily"
    /\ df # <<>>
    /\ selected_date # NoDate
    /\ filtered_df = <<>>
    /\ report.rendered

\* C2 (as claimed): a run whose selection the dataset cannot satisfy (a
\* month token that is no month of the dataset, an anchor date outside
\* [min_date, max_date]) ends in InvalidPeriodError and renders no report.
C2_InvalidPeriodRejected ==
    LET unsatisfiable ==
            \/ /\ view_mode = "Monthly"
               /\ selected_month \notin months(df)
            \/ /\ view_mode \in {"Daily", "Weekly"}
               /\ selected_date # NoDate
               /\ \/ df = <<>>
                  \/ selected_date < min_date(df)
                  \/ selected_date > max_date(df)
    IN  (outcome # "none" /\ unsatisfiable) =>
            (error = "InvalidPeriodError" /\ ~report.rendered)

\* Monday-based offset of a date, from the ordinal alone (ordinal 1,
\* 0001-01-01, is a Monday).
DaysSinceMonday(d) == (d - 1) % 7

\* C3: in Weekly mode the week start is the Monday on or before the anchor
\* (the anchor minus its days since Monday), the week end is six days
\* later, the range has 7 days and contains the anchor, and the filtered
\* rows are exactly the dataset's rows dated within the range, in order.
C3_WeeklyRange ==
    (outcome # "none" /\ view_mode = "Weekly" /\ selected_date # NoDate) =>
        /\ week_start = selected_date - DaysSinceMonday(selected_date)
        /\ DaysSinceMonday(week_start) = 0
        /\ week_end = week_start + 6
        /\ Cardinality(week_start..week_end) = 7
        /\ selected_date \in week_start..week_end
        /\ filtered_df =
              SelectSeq(df, LAMBDA r : r.ts.ord \in week_start..week_end)

\* C3 witness: a Weekly run anchored after the Monday of its week, whose
\* week holds some but not all rows of the dataset.
C3_Witness ==
    /\ outcome = "ok"
    /\ view_mode = "Weekly"
    /\ selected_date > week_start
    /\ Len(filtered_df) >= 2
    /\ Len(filtered_df) < Len(df)

PercentOf(q, count, total) ==
    /\ q.den # 0
    /\ q.num * total = 100 * count * q.den
    /\ 0 <= q.num
    /\ q.num <= 100 * q.den

ProportionOf(q, count, total) ==
    /\ q.den # 0
    /\ q.num * total = count * q.den
    /\ 0 <= q.num
    /\ q.num <= q.den

\* C4 (as claimed): for a period with rows, the arrest rate equals
\* arrestCount / totalCount and the domestic rate domesticCount /
\* totalCount, each a value between 0 and 1.
C4_RateIsProportion ==
    (report.rendered /\ Len(filtered_df) > 0) =>
        /\ ProportionOf(report.arrest_rate, Flagged(filtered_df, "arrest"),
                        Len(filtered_df))
        /\ ProportionOf(report.domestic_rate,
                        Flagged(filtered_df, "domestic"), Len(filtered_df))

\* C4 (amended): for a period with rows, the arrest rate equals
\* 100 * arrestCount / totalCount and the domestic rate
\* 100 * domesticCount / totalCount: each is the percentage, between 0 and
\* 100, of the rows in range with the flag set.
C4_RateIsPercentage ==
    (report.rendered /\ Len(filtered_df) > 0) =>
        /\ report.total_crimes = Len(filtered_df)
        /\ report.arrests_made = Flagged(filtered_df, "arrest")
        /\ report.domestic_crimes = Flagged(filtered_df, "domestic")
        /\ PercentOf(report.arrest_rate, Flagged(filtered_df, "arrest"),
                     Len(filtered_df))
        /\ PercentOf(report.domestic_rate, Flagged(filtered_df, "domestic"),
                     Len(filtered_df))

\* C4 witness: a period where some but not all rows have an arrest, and
\* some row is domestic.
C4_Witness ==
    /\ report.rendered
    /\ Len(filtered_df) >= 2
    /\ Flagged(filtered_df, "arrest") > 0
    /\ Flagged(filtered_df, "arrest") < Len(filtered_df)
    /\ Flagged(filtered_df, "domestic") > 0

TypeCount(rows, t) == Cardinality({i \in Indices(rows) : rows[i].type = t})
TypesOf(rows) == {rows[i].type : i \in Indices(rows)}
FirstRowOf(rows, t) == CHOOSE i \in Indices(rows) :
    rows[i].type = t /\ \A j \in 1..(i - 1) : rows[j].type # t

HasMaxCount(rows, t) ==
    /\ t \in TypesOf(rows)
    /\ \A o \in TypesOf(rows) : TypeCount(rows, o) <= TypeCount(rows, t)

\* C5 (as claimed): the top crime type of a non-empty period has the
\* maximum row count, and among the types sharing that count it is the one
\* whose first row comes earliest.
C5_TopCrimeFirstSeen ==
    (report.rendered /\ Len(filtered_df) > 0) =>
        /\ HasMaxCount(filtered_df, report.most_common_crime)
        /\ \A o \in TypesOf(filtered_df) :
              HasMaxCount(filtered_df, o) =>
                  FirstRowOf(filtered_df, report.most_common_crime)
                      <= FirstRowOf(filtered_df, o)

\* C5 (amended): the top crime type of a non-empty period is a crime type
\* with the maximum row count within the period (which of several types
\* sharing that count it is, is left to the sort of value_counts).
C5_TopCrimeHasMaxCount ==
    (report.rendered /\ Len(filtered_df) > 0) =>
        HasMaxCount(filtered_df, report.most_common_crime)

\* C5 witness: a period of three rows and two crime types.
C5_Witness ==
    /\ report.rendered
    /\ Len(filtered_df) = 3
    /\ Cardinality(TypesOf(filtered_df)) = 2
    /\ TypeCount(filtered_df, report.most_common_crime) = 2

HasCoords(r) == r.lat # NaN /\ r.lon # NaN
Eligible(rows) == {i \in Indices(rows) : HasCoords(rows[i])}
Minimum(a, b) == IF a <= b THEN a ELSE b

\* C6: the map subset holds only rows of the period with both coordinates,
\* each at most once; its size is min(cap, eligible row count); and a run
\* on the rows of the first run again yields the subset of the first run.
C6_MapSubset ==
    report.rendered =>
        /\ \A i \in Indices(report.map_df) :
              /\ HasCoords(report.map_df[i])
              /\ \E j \in Indices(filtered_df) :
                    filtered_df[j] = report.map_df[i]
              /\ \A k \in Indices(report.map_df) :
                    report.map_df[k] = report.map_df[i] => k = i
        /\ Len(report.map_df) =
              Minimum(MAP_SAMPLE_CAP, Cardinality(Eligible(filtered_df)))
        /\ (first_report.rendered
            /\ filtered_df = SelectSeq(df, LAMBDA r : r.date = max_date(df)))
           => report.map_df = first_report.map_df

\* C6 witness: a run later than the first one, on a period with more
\* eligible rows than the cap, whose map subset has exactly cap rows.
C6_Witness ==
    /\ report.rendered
    /\ view_mode = "Monthly"
    /\ Cardinality(Eligible(filtered_df)) > MAP_SAMPLE_CAP
    /\ Len(report.map_df) = MAP_SAMPLE_CAP

Parsable(raw) == raw.stamp \notin BadStamps

\* C7: the loaded dataset holds exactly the rows of the file whose
\* timestamp parsed, in file order: it has no more rows than the file, as
\* many if and only if every timestamp parsed, and none without a
\* timestamp.
C7_LoadedRows ==
    cache.hit =>
        /\ df = cache.value
        /\ Len(df) <= Len(loaded_from)
        /\ (Len(df) = Len(loaded_from))
              <=> (\A i \in Indices(loaded_from) : Parsable(loaded_from[i]))
        /\ {df[k].idx : k \in Indices(df)}
              = {i \in Indices(loaded_from) : Parsable(loaded_from[i])}
        /\ \A k \in Indices(df) :
              /\ df[k].ts # NaT
              /\ stamp(df[k].date, df[k].hour) = loaded_from[df[k].idx].stamp
              /\ \A j \in 1..(k - 1) : df[j].idx < df[k].idx

\* C7 witness: a loaded file with a parsable and an unparsable timestamp.
C7_Witness ==
    /\ cache.hit
    /\ Len(df) >= 1
    /\ Len(df) < Len(loaded_from)

MondayFirst(name) ==
    CASE name = "Monday" -> 1
      [] name = "Tuesday" -> 2
      [] name = "Wednesday" -> 3
      [] name = "Thursday" -> 4
      [] name = "Friday" -> 5
      [] name = "Saturday" -> 6
      [] name = "Sunday" -> 7

\* C8: in Weekly mode the buckets of the time series come in the order
\* Monday, Tuesday, ..., Sunday, whatever the order of the rows.
C8_WeekdayOrder ==
    (report.rendered /\ view_mode = "Weekly") =>
        \A i, j \in Indices(report.time_series) :
            i < j => MondayFirst(report.time_series[i].key)
                        < MondayFirst(report.time_series[j].key)

\* C8 witness: a week with rows on two weekdays whose alphabetical order
\* is not their order in the week, the later weekday first in the file.
C8_Witness ==
    /\ report.rendered
    /\ view_mode = "Weekly"
    /\ Len(report.time_series) = 2
    /\ report.time_series[1].key = "Tuesday"
    /\ report.time_series[2].key = "Saturday"
    /\ filtered_df[1].day_of_week = "Saturday"

\* The report a run on the dataset with the current selection computes.
ReportOf(data) ==
    LET rows == IF view_mode = "Daily"
                THEN SelectSeq(data, LAMBDA r : r.date = selected_date)
                ELSE IF view_mode = "Weekly"
                THEN SelectSeq(data, LAMBDA r :
                        r.date \in week_start..week_end)
                ELSE SelectSeq(data, LAMBDA r : r.month = selected_month)
    IN  aggregate(rows, view_mode, tie_order)

\* C9: once loaded, the dataset of the session never changes, whatever is
\* selected and whatever happens to the file; the report of a run is the
\* one the loaded dataset and the current selection determine; and
\* selecting the first run's period again yields the first run's report.
C9_SessionPurity ==
    /\ cache.hit =>
          /\ cache.value = load_data(loaded_from)
          /\ df = cache.value
    /\ report.rendered =>
          /\ report = ReportOf(load_data(loaded_from))
          /\ (view_mode = "Daily" /\ selected_date = max_date(df))
                => report = first_report

\* C9 witness: the file has changed since it was loaded, and a run shows
\* the first run's period, which holds only some rows of the dataset.
C9_Witness ==
    /\ report.rendered
    /\ csv # loaded_from
    /\ Len(df) = MaxRows
    /\ view_mode = "Daily"
    /\ selected_date = max_date(df)
    /\ selected_date # min_date(df)
    /\ report.total_crimes < Len(df)

\* The bucket a row belongs to, from its timestamp.
BucketOf(r) ==
    IF view_mode = "Daily" THEN r.ts.hour
    ELSE IF view_mode = "Weekly" THEN day_order[DaysSinceMonday(r.ts.ord) + 1]
    ELSE r.ts.ord

RECURSIVE SumCounts(_)
SumCounts(buckets) ==
    IF buckets = <<>> THEN 0
    ELSE buckets[1].count + SumCounts(Tail(buckets))

\* C10: in every view the bucket counts of the time series are positive
\* and sum to the total count: the buckets have distinct keys, every row of
\* the period falls in one of them, and each counts exactly the rows whose
\* hour (Daily), weekday (Weekly) or date (Monthly) is its key.
C10_BucketsPartitionRows ==
    report.rendered =>
        /\ SumCounts(report.time_series) = report.total_crimes
        /\ report.total_crimes = Len(filtered_df)
        /\ \A i \in Indices(report.time_series) :
              /\ report.time_series[i].count > 0
              /\ report.time_series[i].count =
                    Cardinality({n \in Indices(filtered_df) :
                        BucketOf(filtered_df[n]) = report.time_series[i].key})
              /\ \A j \in Indices(report.time_series) :
                    report.time_series[j].key = report.time_series[i].key
                        => j = i
        /\ \A n \in Indices(filtered_df) :
              \E i \in Indices(report.time_series) :
                  report.time_series[i].key = BucketOf(filtered_df[n])

\* C10 witness: a Monthly run with two dates, one of them with two rows at
\* the same hour.
C10_Witness ==
    /\ report.rendered
    /\ view_mode = "Monthly"
    /\ Len(report.time_series) = 2
    /\ \E i \in Indices(report.time_series) :
          /\ report.time_series[i].count = 2
          /\ \A n \in Indices(filtered_df) :
                filtered_df[n].date = report.time_series[i].key
                    => filtered_df[n].hour = filtered_df[1].hour

=============================================================================
